---- MODULE Spec2Model ----
(***************************************************************************)
(* Model of src/cotacao_moedas_jan_25.py: a Streamlit page script that     *)
(* shows a USD/BRL snapshot, a multi-currency chart and translated         *)
(* headlines fetched by a thread pool.                                     *)
(*                                                                         *)
(* The script runs top to bottom; pc is its position.  The market-data     *)
(* provider, the HTTP/HTML layer and the translator are the environment:   *)
(* every call to them is a nondeterministic choice among their possible    *)
(* behaviours (a value, or a raised exception).                            *)
(*                                                                         *)
(* Python's None is the empty tuple <<>> and a present optional value v is *)
(* <<v>>, so that presence tests never compare values of different kinds.  *)
(* Prices are positive integers (cents).                                   *)
(***************************************************************************)
EXTENDS Integers, Sequences, FiniteSets, TLC

VARIABLES
    pc,                \* position of the page script
    data,              \* provider response to the snapshot request (line 16)
    dollar_data,       \* line 92
    page,              \* what st.* has written so far, in order
    selected_tickers,  \* line 115
    market,            \* provider behaviour for the series requests (line 69)
    downloads,         \* series requests made so far, in order (line 69)
    max_workers,       \* pool size of the ThreadPoolExecutor (line 246)
    work_queue,        \* submitted tasks no worker has taken yet
    running,           \* tasks a worker is executing
    futures,           \* one future per submitted task, in submission order
    envs,              \* what the outside world did to each site's fetch
    overtaken,         \* some task finished before an earlier-submitted one
    fs,                \* futures the result iterator has not yielded yet
    call,              \* arguments and environment of one fetch_headline call
    ret                \* what that call returned

vars == <<pc, data, dollar_data, page, selected_tickers, market, downloads,
          max_workers, work_queue, running, futures, envs, overtaken, fs,
          call, ret>>

snapshotVars == <<data, dollar_data>>
seriesVars == <<selected_tickers, market, downloads>>
poolVars == <<max_workers, work_queue, running, futures, envs, overtaken, fs>>
fetchVars == <<call, ret>>

----------------------------------------------------------------------------
(* Bounds of the model *)

MaxPoints == 3     \* rows in a snapshot response
MaxClose == 3      \* largest closing price
MaxSelected == 3   \* currencies the user selects
MaxDates == 2      \* dates a series can cover
MaxWorkers == 3    \* largest pool size explored

----------------------------------------------------------------------------
(* Python values *)

None == <<>>
Some(v) == <<v>>
IsNone(o) == o = <<>>
Get(o) == o[1]

\* A call either returns a value or raises an exception.
Return(v) == [raised |-> FALSE, value |-> v]
Raise(msg) == [raised |-> TRUE, exc |-> msg]

RECURSIVE SeqsUpTo(_, _)
SeqsUpTo(S, n) ==
    IF n = 0 THEN {<<>>}
    ELSE LET shorter == SeqsUpTo(S, n - 1)
         IN shorter \cup {Append(s, x) : s \in {t \in shorter : Len(t) = n - 1}, x \in S}

----------------------------------------------------------------------------
(* Rate snapshot: get_dollar_data_real_time and lines 92-112 *)

\* Responses of yf.download("USDBRL=X", ...): an exception, or a table with
\* some rows, with or without a 'Close' column.
SnapshotResponses ==
    {[raised |-> TRUE, hasClose |-> FALSE, closes |-> <<>>]}
    \cup [raised : {FALSE}, hasClose : BOOLEAN, closes : SeqsUpTo(1..MaxClose, MaxPoints)]

\* Line 19: data['Close'].iloc[-1] if len(data['Close']) > 0 else None
LastClose(closes) ==
    IF Len(closes) > 0 THEN Some(closes[Len(closes)]) ELSE None

\* A slip in line 20: zero stands in for a missing previous close.
PreviousCloseOrZero(closes) ==
    IF Len(closes) > 1 THEN Some(closes[Len(closes) - 1]) ELSE Some(0)

\* Line 20: data['Close'].iloc[-2] if len(data['Close']) > 1 else None
PreviousClose(closes) ==
    IF Len(closes) > 1 THEN Some(closes[Len(closes) - 1]) ELSE None

\* Lines 13-28.  There is no try: what yf.download raises leaves the function.
get_dollar_data_real_time(resp) ==
    IF resp.raised THEN Raise("provider error")
    ELSE IF Len(resp.closes) # 0 /\ resp.hasClose
         THEN Return(Some([last_close |-> LastClose(resp.closes),
                           previous_close |-> PreviousClose(resp.closes),
                           timestamp |-> "now America/Sao_Paulo"]))
         ELSE Return(None)

\* Line 107: the up arrow if variation > 0, else the down arrow
Direction(variation) == IF variation > 0 THEN "up" ELSE "down"

\* Lines 104-110.  percentage_change is kept as the exact quotient
\* num / den; a zero divisor raises ZeroDivisionError.
VariationLines(dd) ==
    IF ~IsNone(dd.previous_close)
    THEN LET variation == Get(dd.last_close) - Get(dd.previous_close)
         IN IF Get(dd.previous_close) = 0 THEN Raise("float division by zero")
            ELSE Return(<<[kind |-> "variation",
                           direction |-> Direction(variation),
                           variation |-> variation,
                           percentage_change |->
                               [num |-> variation * 100, den |-> Get(dd.previous_close)]]>>)
    ELSE Return(<<[kind |-> "cannot_compute"]>>)

\* Lines 93-112
SnapshotLines(dd) ==
    IF ~IsNone(dd)
    THEN LET tail == VariationLines(Get(dd))
             head == <<[kind |-> "subheader_snapshot"],
                       [kind |-> "quote", last_close |-> Get(dd).last_close],
                       [kind |-> "collected_at", timestamp |-> Get(dd).timestamp]>>
         IN IF tail.raised THEN [written |-> head, raised |-> TRUE]
            ELSE [written |-> head \o tail.value, raised |-> FALSE]
    ELSE [written |-> <<[kind |-> "unavailable"]>>, raised |-> FALSE]

\* Line 92: dollar_data = get_dollar_data_real_time().  An exception that
\* reaches module level ends the script run: nothing below it executes.
FetchSnapshot ==
    /\ pc = "snapshot"
    /\ \E resp \in SnapshotResponses :
          LET out == get_dollar_data_real_time(resp)
          IN /\ data' = Some(resp)
             /\ IF out.raised
                THEN /\ pc' = "crashed"
                     /\ dollar_data' = dollar_data
                ELSE /\ pc' = "show_snapshot"
                     /\ dollar_data' = out.value
    /\ UNCHANGED <<page, seriesVars, poolVars, fetchVars>>

\* Lines 93-112
ShowSnapshot ==
    /\ pc = "show_snapshot"
    /\ LET out == SnapshotLines(dollar_data)
       IN /\ page' = page \o out.written
          /\ pc' = IF out.raised THEN "crashed" ELSE "select"
    /\ UNCHANGED <<snapshotVars, seriesVars, poolVars, fetchVars>>

----------------------------------------------------------------------------
(* Currency series: download_currency_data and display_currency_data *)

\* Lines 79-86
tickers == <<"USDBRL=X", "USDARS=X", "USDMXN=X", "USDCNY=X", "USDINR=X">>

ticker_labels ==
    [t \in {tickers[i] : i \in 1..Len(tickers)} |->
        CASE t = "USDBRL=X" -> "Real (BRL)"
          [] t = "USDARS=X" -> "Peso Argentino (ARS)"
          [] t = "USDMXN=X" -> "Peso Mexicano (MXN)"
          [] t = "USDCNY=X" -> "Yuan Chines (CNY)"
          [] t = "USDINR=X" -> "Rupia Indiana (INR)"]

Range(s) == {s[i] : i \in 1..Len(s)}

\* Line 115: st.multiselect returns the chosen options, each at most once.
Selections ==
    {s \in SeqsUpTo(Range(tickers), MaxSelected) : Cardinality(Range(s)) = Len(s)}

\* Line 116
selected_labels == [i \in 1..Len(selected_tickers) |-> ticker_labels[selected_tickers[i]]]

\* Responses of yf.download(ticker, start, end): an exception, or a table
\* indexed by the dates it covers (no dates: an empty table).  The date
\* range the user picked (lines 119-120) only selects which response comes.
Dates == 1..MaxDates

SeriesResponses ==
    {[raised |-> TRUE, dates |-> {}]} \cup [raised : {FALSE}, dates : SUBSET Dates]

\* A DataFrame: its columns in order, each with its header and the ticker
\* whose closing prices it holds, and its date index.
EmptyFrame == [columns |-> <<>>, index |-> {}]
FrameEmpty(df) == Len(df.columns) = 0 \/ df.index = {}

\* Lines 68-72, from the i-th ticker on.  calls is the list of requests made.
RECURSIVE DownloadLoop(_, _, _, _, _)
DownloadLoop(tks, i, mkt, cols, calls) ==
    IF i > Len(tks) THEN [raised |-> FALSE, columns |-> cols, calls |-> calls]
    ELSE LET ticker == tks[i]
             currency_data == mkt[ticker]
             made == Append(calls, ticker)
         IN IF currency_data.raised
            THEN [raised |-> TRUE, exc |-> "provider error", calls |-> made]
            ELSE IF currency_data.dates # {}
                 THEN DownloadLoop(tks, i + 1, mkt,
                                   Append(cols, [header |-> ticker, holds |-> ticker,
                                                 dates |-> currency_data.dates]),
                                   made)
                 ELSE DownloadLoop(tks, i + 1, mkt, cols, made)

\* Line 74: pd.concat(data, axis=1, keys=columns) aligns the columns on the
\* union of their date indexes.
Concat(cols) ==
    [columns |-> [i \in 1..Len(cols) |-> [header |-> cols[i].header, holds |-> cols[i].holds]],
     index |-> UNION {cols[i].dates : i \in 1..Len(cols)}]

\* Lines 65-76
download_currency_data(tks, mkt) ==
    LET loop == DownloadLoop(tks, 1, mkt, <<>>, <<>>)
    IN IF loop.raised THEN loop
       ELSE [raised |-> FALSE,
             value |-> IF Len(loop.columns) # 0 THEN Concat(loop.columns) ELSE EmptyFrame,
             calls |-> loop.calls]

\* Line 131: currency_data.columns = selected_labels.  pandas raises
\* ValueError when the number of labels is not the number of columns.
SetColumns(df, labels) ==
    IF Len(labels) # Len(df.columns)
    THEN Raise("Length mismatch")
    ELSE Return([columns |-> [i \in 1..Len(labels) |->
                                 [header |-> labels[i], holds |-> df.columns[i].holds]],
                 index |-> df.index])

\* Lines 142-192: every column but the peso on the main axis, the peso on
\* the secondary one.
Figure(df) ==
    LET IsMain(c) == c.header # "Peso Argentino (ARS)"
        IsPeso(c) == c.header = "Peso Argentino (ARS)"
    IN [kind |-> "chart",
        y1 |-> SelectSeq(df.columns, IsMain),
        y2 |-> SelectSeq(df.columns, IsPeso),
        index |-> df.index]

\* A slip in line 124: the selection is not tested.
TruthyAlways(list) == TRUE

\* Line 124: truth value of a list
Truthy(list) == Len(list) # 0

\* Lines 123-198.  Every exception raised inside the try is written as an
\* error line (lines 195-196).
display_currency_data(sel, labels, mkt) ==
    IF Truthy(sel)
    THEN LET dl == download_currency_data(sel, mkt)
         IN IF dl.raised
            THEN [written |-> <<[kind |-> "series_error", error |-> dl.exc]>>, calls |-> dl.calls]
            ELSE IF FrameEmpty(dl.value)
            THEN [written |-> <<[kind |-> "no_data"]>>, calls |-> dl.calls]
            ELSE LET renamed == SetColumns(dl.value, labels)
                 IN IF renamed.raised
                    THEN [written |-> <<[kind |-> "series_error", error |-> renamed.exc]>>,
                          calls |-> dl.calls]
                    ELSE IF ~FrameEmpty(renamed.value)
                    THEN [written |-> <<[kind |-> "subheader_chart"], Figure(renamed.value)>>,
                          calls |-> dl.calls]
                    ELSE [written |-> <<[kind |-> "subheader_chart"], [kind |-> "no_chart_data"]>>,
                          calls |-> dl.calls]
    ELSE [written |-> <<[kind |-> "prompt"]>>, calls |-> <<>>]

\* Lines 115-116: the user's selection
Select ==
    /\ pc = "select"
    /\ \E sel \in Selections : selected_tickers' = sel
    /\ pc' = "series"
    /\ UNCHANGED <<page, snapshotVars, market, downloads, poolVars, fetchVars>>

\* Line 201: display_currency_data()
DisplayCurrencyData ==
    /\ pc = "series"
    /\ \E mkt \in [Range(selected_tickers) -> SeriesResponses] :
          LET out == display_currency_data(selected_tickers, selected_labels, mkt)
          IN /\ market' = mkt
             /\ page' = page \o out.written
             /\ downloads' = downloads \o out.calls
    /\ pc' = "headlines"
    /\ UNCHANGED <<snapshotVars, selected_tickers, poolVars, fetchVars>>

----------------------------------------------------------------------------
(* Headlines: fetch_headline *)

\* Lines 204-242.  Only the last descriptor has a translate_from key.
sites ==
    <<[name |-> "ABC News", url |-> "https://abcnews.go.com/",
       title_selector |-> "h2.PFoxV", subtitle_selector |-> None],
      [name |-> "Capital and Main", url |-> "https://capitalandmain.com",
       title_selector |-> "h2", subtitle_selector |-> Some("p")],
      [name |-> "CNN Business", url |-> "https://www.cnn.com/business",
       title_selector |-> "span.container__headline-text", subtitle_selector |-> None],
      [name |-> "Europe - BBC Business", url |-> "https://www.bbc.com/news/business",
       title_selector |-> "h2[data-testid='card-headline']",
       subtitle_selector |-> Some("p[data-testid='card-description']")],
      [name |-> "China - South China Morning Post", url |-> "https://www.scmp.com",
       title_selector |-> "span[data-qa='ContentHeadline-Headline']",
       subtitle_selector |-> Some("h3[data-qa='ContentSummary-ContainerWithTag']")],
      [name |-> "Argentina - Clarin", url |-> "https://www.clarin.com/",
       title_selector |-> "h2.title", subtitle_selector |-> Some("div.bottomSummary p.bajada"),
       translate_from |-> "es"]>>

\* Line 42
Placeholder == "Titulo nao encontrado"

\* What the outside world does during one fetch_headline call:
\*   get      requests.get returns, or raises on a timeout (line 36)
\*   status   raise_for_status passes, or raises HTTPError (line 37)
\*   parse    BeautifulSoup / select_one work, or raise (lines 38-41)
\*   title    title_selector matches an element, or none (line 41)
\*   subtitle subtitle_selector matches an element with text, an element
\*            without text, or none (lines 48-49)
\*   title_tr, sub_tr   the translator returns the text unchanged, returns
\*            another text, or raises (lines 43, 51)
TrModes == {"same", "changed", "raise"}

FetchEnvs ==
    [get : {"ok", "timeout"}, status : {"ok", "error"}, parse : {"ok", "raise"},
     title : {"found", "missing"}, title_tr : TrModes,
     subtitle : {"found", "empty", "missing"}, sub_tr : TrModes]

\* GoogleTranslator(source=src, target="pt").translate(text)
Translate(text, src, mode) ==
    CASE mode = "same" -> Return(text)
      [] mode = "changed" -> Return("[" \o src \o ">pt] " \o text)
      [] mode = "raise" -> Raise("translation failed")

\* A slip in line 42: no placeholder for a missing title element.
TitleTextOrEmpty(env) == IF env.title = "found" THEN "Headline" ELSE ""

\* Line 42: text of the title element, or the placeholder when there is none
TitleText(env) == IF env.title = "found" THEN "Headline" ELSE Placeholder

\* Line 49: text of the subtitle element, or "" when there is none
SubtitleText(env) == IF env.subtitle = "found" THEN "Summary" ELSE ""

\* Lines 46-51
TranslatedSubtitle(subtitle_selector, translate_from, env) ==
    IF ~IsNone(subtitle_selector) /\ Get(subtitle_selector) # ""
    THEN IF SubtitleText(env) # ""
         THEN LET tr == Translate(SubtitleText(env), translate_from, env.sub_tr)
              IN IF tr.raised THEN tr ELSE Return(Some(tr.value))
         ELSE Return(None)
    ELSE Return(None)

\* Lines 33-57: the body of the try
FetchBody(site_name, subtitle_selector, translate_from, env) ==
    IF env.get = "timeout" THEN Raise("Read timed out. (read timeout=10)")
    ELSE IF env.status = "error" THEN Raise("404 Client Error")
    ELSE IF env.parse = "raise" THEN Raise("parse error")
    ELSE LET translated_title == Translate(TitleText(env), translate_from, env.title_tr)
             translated_subtitle == TranslatedSubtitle(subtitle_selector, translate_from, env)
         IN IF translated_title.raised THEN translated_title
            ELSE IF translated_subtitle.raised THEN translated_subtitle
            ELSE Return([site_name |-> site_name,
                         translated_title |-> translated_title.value,
                         translated_subtitle |-> translated_subtitle.value])

\* fetch_headline without its try: what the body raises leaves the call.
FetchHeadlineNoTry(site_name, subtitle_selector, translate_from, env) ==
    FetchBody(site_name, subtitle_selector, translate_from, env)

\* fetch_headline returning one dict shape for both outcomes.
FetchHeadlineOneShape(site_name, subtitle_selector, translate_from, env) ==
    LET body == FetchBody(site_name, subtitle_selector, translate_from, env)
    IN IF body.raised
       THEN Return([site_name |-> site_name, translated_title |-> "",
                    translated_subtitle |-> None, error |-> body.exc])
       ELSE body

\* Lines 31-62: the try and its except Exception
fetch_headline(site_name, subtitle_selector, translate_from, env) ==
    LET body == FetchBody(site_name, subtitle_selector, translate_from, env)
    IN IF body.raised
       THEN Return([site_name |-> site_name, error |-> body.exc])
       ELSE body

\* Lines 248-254: the lambda handed to executor.map
FetchSite(site, env) ==
    fetch_headline(site.name,
                   site.subtitle_selector,
                   IF "translate_from" \in DOMAIN site THEN site.translate_from ELSE "en",
                   env)

\* Lines 259-266: what the loop writes for one result
ResultLines(result) ==
    IF "error" \in DOMAIN result
    THEN <<[kind |-> "headline_error", site_name |-> result.site_name,
            error |-> result.error]>>
    ELSE <<[kind |-> "headline", site_name |-> result.site_name,
            title |-> result.translated_title,
            subtitle |-> IF ~IsNone(result.translated_subtitle)
                            /\ Get(result.translated_subtitle) # ""
                         THEN result.translated_subtitle ELSE None]>>

\* One call of fetch_headline on its own
CallFetch ==
    /\ pc = "fetch_call"
    /\ ret' = Some(FetchSite(sites[Get(call).site], Get(call).env))
    /\ pc' = "fetch_show"
    /\ UNCHANGED <<page, snapshotVars, seriesVars, poolVars, call>>

\* Lines 259-266 applied to what the call returned
ShowFetched ==
    /\ pc = "fetch_show"
    /\ IF Get(ret).raised
       THEN /\ pc' = "crashed"
            /\ page' = page
       ELSE /\ pc' = "fetch_done"
            /\ page' = page \o ResultLines(Get(ret).value)
    /\ UNCHANGED <<snapshotVars, seriesVars, poolVars, fetchVars>>

----------------------------------------------------------------------------
(* Headlines: the thread pool (lines 245-266) *)

\* The environments explored when the six fetches run together: all goes
\* well, the request times out, the title element is missing, the
\* translator raises.
OkEnv ==
    [get |-> "ok", status |-> "ok", parse |-> "ok", title |-> "found",
     title_tr |-> "changed", subtitle |-> "found", sub_tr |-> "changed"]

BatchEnvs ==
    {OkEnv,
     [OkEnv EXCEPT !.get = "timeout"],
     [OkEnv EXCEPT !.title = "missing", !.title_tr = "same"],
     [OkEnv EXCEPT !.title_tr = "raise"]}

SiteIds == 1..Len(sites)

IsDone(fut) == ~IsNone(fut)

\* Lines 247-256: executor.map submits one task per site, in list order,
\* and returns an iterator that yields the futures' results in that order.
SubmissionOrder == [i \in SiteIds |-> i]

\* Results taken as they complete, as concurrent.futures.as_completed does.
YieldableAsCompleted(remaining, futs) ==
    {i \in Range(remaining) : IsDone(futs[i])}

\* The result iterator: it yields the result of the first future it still
\* holds, and waits while that future is not done.
Yieldable(remaining, futs) ==
    IF remaining # <<>> /\ IsDone(futs[Head(remaining)]) THEN {Head(remaining)} ELSE {}

Without(seq, x) == LET Keep(y) == y # x IN SelectSeq(seq, Keep)

\* shutdown(wait=False): the with block ends at once.
ShutdownNoWait(queue, busy) == TRUE

\* Line 256, leaving the with block: shutdown(wait=True) returns once no
\* task is queued or running.
ShutdownReturns(queue, busy) == queue = <<>> /\ busy = {}

\* Lines 245-256: the section header, the pool and the submissions
Submit ==
    /\ pc = "headlines"
    /\ \E w \in 1..MaxWorkers : max_workers' = w
    /\ page' = Append(page, [kind |-> "subheader_headlines"])
    /\ work_queue' = SubmissionOrder
    /\ futures' = [i \in SiteIds |-> None]
    /\ envs' = [i \in SiteIds |-> None]
    /\ fs' = SubmissionOrder
    /\ running' = {}
    /\ overtaken' = FALSE
    /\ pc' = "pool"
    /\ UNCHANGED <<snapshotVars, seriesVars, fetchVars>>

\* A free worker thread takes the oldest queued task.
StartTask ==
    /\ work_queue # <<>>
    /\ Cardinality(running) < max_workers
    /\ running' = running \cup {Head(work_queue)}
    /\ work_queue' = Tail(work_queue)
    /\ UNCHANGED <<pc, page, snapshotVars, seriesVars, max_workers, futures, envs,
                   overtaken, fs, fetchVars>>

\* A worker thread runs the lambda for its site to the end and sets the
\* future's result, or its exception if the lambda raised.
FinishTask ==
    \E i \in running, env \in BatchEnvs :
        /\ futures' = [futures EXCEPT ![i] = Some(FetchSite(sites[i], env))]
        /\ envs' = [envs EXCEPT ![i] = Some(env)]
        /\ running' = running \ {i}
        /\ overtaken' = (overtaken \/ \E j \in 1..(i - 1) : ~IsDone(futures[j]))
        /\ UNCHANGED <<pc, page, snapshotVars, seriesVars, max_workers, work_queue,
                       fs, fetchVars>>

\* Line 256 -> 258: the with block ends
ExitWith ==
    /\ pc = "pool"
    /\ ShutdownReturns(work_queue, running)
    /\ pc' = "render"
    /\ UNCHANGED <<page, snapshotVars, seriesVars, poolVars, fetchVars>>

\* Lines 258-266: one turn of the loop over results.  A future that holds
\* an exception re-raises it here, at module level.
RenderNext ==
    /\ pc = "render"
    /\ \E i \in Yieldable(fs, futures) :
          LET out == Get(futures[i])
          IN IF out.raised
             THEN /\ pc' = "crashed"
                  /\ UNCHANGED <<page, fs>>
             ELSE /\ page' = page \o ResultLines(out.value)
                  /\ fs' = Without(fs, i)
                  /\ pc' = IF fs' = <<>> THEN "done" ELSE "render"
    /\ UNCHANGED <<snapshotVars, seriesVars, max_workers, work_queue, running,
                   futures, envs, overtaken, fetchVars>>

----------------------------------------------------------------------------
(* Specifications: one per section of the page script *)

FreshSnapshot == data = None /\ dollar_data = None
FreshSeries == selected_tickers = <<>> /\ market = <<>> /\ downloads = <<>>
FreshPool ==
    /\ max_workers = 0
    /\ work_queue = <<>>
    /\ running = {}
    /\ futures = <<>>
    /\ envs = <<>>
    /\ overtaken = FALSE
    /\ fs = <<>>
FreshFetch == call = None /\ ret = None

\* The page script from its first line to the end of the snapshot block.
InitSnapshot ==
    pc = "snapshot" /\ page = <<>> /\ FreshSnapshot /\ FreshSeries /\ FreshPool /\ FreshFetch
NextSnapshot == FetchSnapshot \/ ShowSnapshot
SpecSnapshot == InitSnapshot /\ [][NextSnapshot]_vars

\* The state the snapshot block leaves when the provider's table is empty.
EmptyResponse == [raised |-> FALSE, hasClose |-> TRUE, closes |-> <<>>]
PastSnapshot ==
    /\ data = Some(EmptyResponse)
    /\ dollar_data = get_dollar_data_real_time(EmptyResponse).value

\* From the currency selection to the end of display_currency_data.
InitSeries ==
    /\ pc = "select"
    /\ PastSnapshot
    /\ page = SnapshotLines(dollar_data).written
    /\ FreshSeries /\ FreshPool /\ FreshFetch
NextSeries == Select \/ DisplayCurrencyData
SpecSeries == InitSeries /\ [][NextSeries]_vars

\* One fetch_headline call, for any site and any environment.
InitFetch ==
    /\ pc = "fetch_call"
    /\ page = <<>>
    /\ FreshSnapshot /\ FreshSeries /\ FreshPool
    /\ call \in {Some(c) : c \in [site : SiteIds, env : FetchEnvs]}
    /\ ret = None
NextFetch == CallFetch \/ ShowFetched
SpecFetch == InitFetch /\ [][NextFetch]_vars

\* The headline section: pool, submissions, workers, loop over results.
\* Above it the snapshot block met an empty table and the user had selected
\* no currency.
InitBatch ==
    /\ pc = "headlines"
    /\ PastSnapshot
    /\ selected_tickers = <<>> /\ market = <<>> /\ downloads = <<>>
    /\ page = SnapshotLines(dollar_data).written
              \o display_currency_data(selected_tickers, selected_labels, market).written
    /\ FreshPool /\ FreshFetch
NextBatch == Submit \/ StartTask \/ FinishTask \/ ExitWith \/ RenderNext
SpecBatch == InitBatch /\ [][NextBatch]_vars

\* Worker threads keep running and the main thread keeps going: the
\* scheduler starves no thread, and every fetch returns (each request has a
\* 10 second timeout, line 36).
FairBatch ==
    /\ SpecBatch
    /\ WF_vars(Submit) /\ WF_vars(StartTask) /\ WF_vars(FinishTask)
    /\ WF_vars(ExitWith) /\ WF_vars(RenderNext)

\* The whole page, top to bottom.  Its sections only share the page they
\* append to, and are checked one by one under the specifications above.
Init == InitSnapshot
Next == NextSnapshot \/ NextSeries \/ NextBatch
Spec == Init /\ [][Next]_vars

----------------------------------------------------------------------------
(* Properties *)

IsHeadlineEntry(e) == e.kind \in {"headline", "headline_error"}
Shown == SelectSeq(page, IsHeadlineEntry)

IsSeriesEntry(e) ==
    e.kind \in {"prompt", "no_data", "series_error", "subheader_chart", "chart", "no_chart_data"}
SeriesShown == SelectSeq(page, IsSeriesEntry)

Kinds(entries) == {entries[k].kind : k \in 1..Len(entries)}

\* Some step of fetch_headline raises for this site in this environment.
EnvRaises(site, env) ==
    \/ env.get = "timeout"
    \/ env.status = "error"
    \/ env.parse = "raise"
    \/ env.title_tr = "raise"
    \/ /\ ~IsNone(site.subtitle_selector)
       /\ env.subtitle = "found"
       /\ env.sub_tr = "raise"

\* The stringified error of the first step that raises.
ExpectedError(env) ==
    CASE env.get = "timeout" -> "Read timed out. (read timeout=10)"
      [] env.get # "timeout" /\ env.status = "error" -> "404 Client Error"
      [] env.get # "timeout" /\ env.status # "error" /\ env.parse = "raise" -> "parse error"
      [] OTHER -> "translation failed"

AllFetched == \A i \in DOMAIN futures : IsDone(futures[i])

\* C1: whatever the completion order and the pool size, the results the
\* rendering loop consumes are those of the sites in list order: the i-th
\* consumed result is the one produced for the i-th site, and once the loop
\* has ended there are as many results as sites.
C1_ResultsInSubmissionOrder ==
    /\ Len(Shown) <= Len(sites)
    /\ \A i \in 1..Len(Shown) :
          /\ Shown[i].site_name = sites[i].name
          /\ IsDone(futures[i])
          /\ <<Shown[i]>> = ResultLines(Get(futures[i]).value)
    /\ pc = "done" => Len(Shown) = Len(sites)

C1_Witness ==
    /\ pc = "done"
    /\ overtaken
    /\ max_workers > 1
    /\ Len(Shown) = Len(sites)

\* C2: a step of fetch_headline that raises for a site becomes a Failure
\* result with that site's name and the error's text; no exception reaches
\* the pool or the loop; every site's result is determined by its own
\* descriptor and environment alone; and the loop ends with one result per
\* site, as many of them Failure as there were failing sites.
C2_FailureIsolated ==
    /\ pc # "crashed"
    /\ \A i \in DOMAIN futures :
          IsDone(futures[i]) =>
             LET out == Get(futures[i])
                 env == Get(envs[i])
             IN /\ ~out.raised
                /\ out = FetchSite(sites[i], env)
                /\ out.value.site_name = sites[i].name
                /\ ("error" \in DOMAIN out.value) <=> EnvRaises(sites[i], env)
                /\ EnvRaises(sites[i], env) => out.value.error = ExpectedError(env)
    /\ pc = "done" =>
          /\ Len(Shown) = Len(sites)
          /\ \A i \in 1..Len(Shown) :
                (Shown[i].kind = "headline_error") <=> EnvRaises(sites[i], Get(envs[i]))

C2_Witness ==
    /\ pc = "done"
    /\ Len(Shown) = Len(sites)
    /\ Cardinality({i \in SiteIds : EnvRaises(sites[i], Get(envs[i]))}) = 2
    /\ Cardinality({i \in 1..Len(Shown) : Shown[i].kind = "headline_error"}) = 2
    /\ Cardinality({i \in 1..Len(Shown) : Shown[i].kind = "headline"}) = Len(sites) - 2

\* C3: the rendering loop runs only when every fetch has reached a result,
\* it ends with a result for every site, and, every fetch returning and no
\* thread starved, the batch does complete.
C3_BatchCompletes ==
    /\ [](pc \in {"render", "done"} =>
             /\ futures # <<>>
             /\ AllFetched
             /\ work_queue = <<>>
             /\ running = {})
    /\ [](pc = "done" => Len(Shown) = Len(sites))
    /\ <>(pc = "done")

C3_Witness ==
    /\ pc = "render"
    /\ fs = SubmissionOrder
    /\ AllFetched
    /\ overtaken
    /\ Shown = <<>>

\* C4: when the provider raises during the snapshot request, the fetcher
\* returns None, the page run goes on and shows the not-available line.
C4_ProviderErrorIsUnavailable ==
    (~IsNone(data) /\ Get(data).raised) =>
        /\ pc # "crashed"
        /\ IsNone(dollar_data)
        /\ pc = "select" => "unavailable" \in Kinds(page)

\* C5: when no series request raises and some series is not empty, a chart
\* is shown, without an error line, with one column per symbol whose series
\* is not empty, each headed by the label of the symbol whose data it holds,
\* the main-axis columns in request order.
C5_OneColumnPerNonEmptySeries ==
    LET Fetched(t) == ~market[t].raised
        NonEmpty(t) == market[t].dates # {}
        IsMain(t) == t # "USDARS=X"
        kept == SelectSeq(selected_tickers, NonEmpty)
    IN (/\ pc = "headlines"
        /\ \A t \in Range(selected_tickers) : Fetched(t)
        /\ kept # <<>>)
       => /\ "series_error" \notin Kinds(SeriesShown)
          /\ \E k \in 1..Len(page) :
                /\ page[k].kind = "chart"
                /\ LET cols == page[k].y1 \o page[k].y2
                   IN /\ Len(cols) = Len(kept)
                      /\ {cols[c].holds : c \in 1..Len(cols)} = Range(kept)
                      /\ \A c \in 1..Len(cols) :
                            cols[c].header = ticker_labels[cols[c].holds]
                      /\ [c \in 1..Len(page[k].y1) |-> page[k].y1[c].holds]
                            = SelectSeq(kept, IsMain)

\* C6: a displayed variation has direction up, down or flat: up exactly
\* when it is positive, down exactly when negative, flat exactly when zero.
C6_DirectionUpDownFlat ==
    \A k \in 1..Len(page) :
        page[k].kind = "variation" =>
            /\ page[k].direction \in {"up", "down", "flat"}
            /\ page[k].direction = "up" <=> page[k].variation > 0
            /\ page[k].direction = "down" <=> page[k].variation < 0
            /\ page[k].direction = "flat" <=> page[k].variation = 0

\* The request, the status check and the parse succeed and title_selector
\* matches nothing, and the call has returned.
TitleMissingCase ==
    /\ ~IsNone(ret)
    /\ Get(call).env.get = "ok"
    /\ Get(call).env.status = "ok"
    /\ Get(call).env.parse = "ok"
    /\ Get(call).env.title = "missing"

\* C7 as stated: with the title element missing the call yields a Success
\* whose title is the placeholder, whatever the translator does.
C7_PlaceholderWhateverTranslator ==
    TitleMissingCase =>
        /\ ~Get(ret).raised
        /\ "error" \notin DOMAIN Get(ret).value
        /\ Get(ret).value.translated_title = Placeholder

\* C7 amended: with the title element missing no exception leaves the call;
\* the placeholder is what the translator is given, so the result is a
\* Success whose title is the translator's output for the placeholder (the
\* placeholder itself when the translator returns its input unchanged),
\* unless a translation raises, and then it is a Failure with the site's
\* name and the translator's error.
C7_PlaceholderIsTranslated ==
    TitleMissingCase =>
        LET site == sites[Get(call).site]
            env == Get(call).env
            src == IF Get(call).site = Len(sites) THEN "es" ELSE "en"
            r == Get(ret).value
        IN /\ ~Get(ret).raised
           /\ r.site_name = site.name
           /\ IF EnvRaises(site, env)
              THEN /\ "error" \in DOMAIN r
                   /\ r.error = "translation failed"
              ELSE /\ "error" \notin DOMAIN r
                   /\ env.title_tr = "same" => r.translated_title = Placeholder
                   /\ env.title_tr = "changed" =>
                         r.translated_title = "[" \o src \o ">pt] " \o Placeholder

C7_Witness ==
    /\ TitleMissingCase
    /\ pc = "fetch_done"
    /\ Get(call).env.title_tr = "changed"
    /\ "error" \notin DOMAIN Get(ret).value
    /\ Get(ret).value.translated_title # Placeholder

SuccessKeys == {"site_name", "translated_title", "translated_subtitle"}
FailureKeys == {"site_name", "error"}

\* C8: one call of fetch_headline returns one result that is a Success
\* (a translated_title, no error) or a Failure (an error, no
\* translated_title), never both and never neither, with the site_name of
\* the descriptor it was called with; the loop shows it as exactly one of
\* the two.
C8_ExactlyOneVariant ==
    ~IsNone(ret) =>
        LET r == Get(ret).value
        IN /\ ~Get(ret).raised
           /\ r.site_name = sites[Get(call).site].name
           /\ DOMAIN r \in {SuccessKeys, FailureKeys}
           /\ ("error" \in DOMAIN r) # ("translated_title" \in DOMAIN r)
           /\ pc = "fetch_done" =>
                 /\ Len(page) = 1
                 /\ page[1].site_name = r.site_name
                 /\ page[1].kind = (IF DOMAIN r = FailureKeys
                                    THEN "headline_error" ELSE "headline")

C8_Witness ==
    /\ pc = "fetch_done"
    /\ DOMAIN Get(ret).value = FailureKeys
    /\ page[1].kind = "headline_error"
    /\ Get(call).env.get = "ok"

\* The snapshot response is a table with rows and a 'Close' column, and
\* get_dollar_data_real_time has returned.
ValidResponse ==
    /\ pc \in {"show_snapshot", "select"}
    /\ ~IsNone(data)
    /\ ~Get(data).raised
    /\ Get(data).hasClose
    /\ Len(Get(data).closes) > 0

\* C9: for a response with rows, last_close is present; previous_close is
\* present exactly when there are two rows or more; with a single row it is
\* None, the page shows the cannot-compute line and no variation, and a
\* variation is only ever computed by dividing by the previous row's close.
C9_PreviousCloseAbsent ==
    ValidResponse =>
        LET closes == Get(data).closes
            n == Len(closes)
        IN /\ ~IsNone(dollar_data)
           /\ Get(dollar_data).last_close = Some(closes[n])
           /\ ~IsNone(Get(dollar_data).previous_close) <=> n >= 2
           /\ n >= 2 => Get(dollar_data).previous_close = Some(closes[n - 1])
           /\ (n = 1 /\ pc = "select") =>
                 /\ "cannot_compute" \in Kinds(page)
                 /\ "variation" \notin Kinds(page)
           /\ \A k \in 1..Len(page) :
                 page[k].kind = "variation" =>
                    /\ n >= 2
                    /\ page[k].variation = closes[n] - closes[n - 1]
                    /\ page[k].percentage_change.den = closes[n - 1]
                    /\ page[k].percentage_change.den # 0

C9_Witness ==
    /\ ValidResponse
    /\ pc = "select"
    /\ Len(Get(data).closes) = 1
    /\ IsNone(Get(dollar_data).previous_close)
    /\ "cannot_compute" \in Kinds(page)

\* C10: with no currency selected, display_currency_data writes the prompt
\* and nothing else for the series section, and requests no series from the
\* provider.
C10_NoSelectionNoFetch ==
    (pc = "headlines" /\ selected_tickers = <<>>) =>
        /\ downloads = <<>>
        /\ SeriesShown = <<[kind |-> "prompt"]>>

C10_Witness ==
    /\ pc = "headlines"
    /\ selected_tickers = <<>>
    /\ "prompt" \in Kinds(page)

====
